---- MODULE Spec2Model ----
(***************************************************************************)
(* A model of package cflag (src/unnamed/part_000): the CFlags binder that *)
(* wraps flag.FlagSet with option shortcuts, required options, validators  *)
(* and named positional arguments.                                         *)
(*                                                                         *)
(* Go strings are sequences of one-character strings, so that prefixes,    *)
(* lengths and byte order are computed and not assumed.  A Go map is a     *)
(* TLA+ function; the unspecified order of `range` over a map is an input  *)
(* of the operator that walks it.  A panic is a result of the operator     *)
(* that raises it, together with the state it leaves behind.               *)
(***************************************************************************)
EXTENDS Integers, Sequences, FiniteSets, TLC

VARIABLES c, last, nCalls

vars == <<c, last, nCalls>>

-----------------------------------------------------------------------------
(* Bounds of the model. *)

\* the longest argument list handed to Parse
MaxArgLen == 2
\* the number of calls explored on one binder
MaxCalls == 4

-----------------------------------------------------------------------------
(* Strings. *)

sEmpty == << >>
sB == <<"b">>
sAB == <<"a", "b">>
sN == <<"n">>
sT == <<"t">>
sV == <<"v">>
sW == <<"w">>
sX == <<"x">>
sH == <<"h">>
sHelp == <<"h", "e", "l", "p">>
sDashDash == <<"-", "-">>

\* byte values of the characters the model uses
CharOrd(ch) ==
  CASE ch = "-" -> 45
    [] ch = "=" -> 61
    [] ch = "a" -> 97
    [] ch = "b" -> 98
    [] ch = "e" -> 101
    [] ch = "h" -> 104
    [] ch = "l" -> 108
    [] ch = "n" -> 110
    [] ch = "p" -> 112
    [] ch = "t" -> 116
    [] ch = "v" -> 118
    [] ch = "w" -> 119
    [] ch = "x" -> 120

RECURSIVE StrLess(_, _)
StrLess(s, t) ==
  IF t = << >> THEN FALSE
  ELSE IF s = << >> THEN TRUE
  ELSE IF Head(s) = Head(t) THEN StrLess(Tail(s), Tail(t))
  ELSE CharOrd(Head(s)) < CharOrd(Head(t))

\* the permutations of a finite set, as sequences
Perms(S) ==
  { f \in [1..Cardinality(S) -> S] : \A i, j \in 1..Cardinality(S) : i # j => f[i] # f[j] }

\* the error value nil, and the errors the package and flag.FlagSet return
NilErr == [kind |-> "nil", name |-> sEmpty, index |-> -1]
Err(kind, name, index) == [kind |-> kind, name |-> name, index |-> index]
ErrHelp == Err("ErrHelp", sEmpty, -1)
NoPanic == "none"

NilValue == <<"nil">>
Malformed == <<"malformed">>

\* what a call leaves behind: the binder, and the panic it raised (if any)
Done(cf) == [c |-> cf, panic |-> NoPanic]
Panic(cf, msg) == [c |-> cf, panic |-> msg]

-----------------------------------------------------------------------------
(* Construction and configuration. *)

\* a Go map with no keys
EmptyMap == [k \in {} |-> k]

\* c := &CFlags{shortcuts: map, bindOpts: map, bindArgs: map}, with a fresh
\* flag.FlagSet (no flag declared, no argument parsed) and the handler fn
NewEmpty(fn) ==
  [ formal |-> EmptyMap,
    args |-> << >>,
    bindOpts |-> EmptyMap,
    shortcuts |-> EmptyMap,
    bindArgs |-> EmptyMap,
    remainArgs |-> << >>,
    Func |-> fn ]

\* &FlagOpt{}: Required and Validator (Shortcuts is read by the help panel only)
NewFlagOpt == [Required |-> FALSE, Validator |-> "nil"]

\* flag.FlagSet.StringVar(p, name, "", usage): panics when name is declared
StringVar(cf, name, usage) ==
  IF name \in DOMAIN cf.formal
    THEN Panic(cf, "flag redefined")
    ELSE Done([cf EXCEPT !.formal = (name :> [Usage |-> usage, Value |-> sEmpty]) @@ @])

\* ConfigOpt up to the call of fn: the caller applies fn to c.bindOpts[name]
ConfigOpt(cf, name) ==
  IF name \notin DOMAIN cf.formal
    THEN Panic(cf, "option is not registered")
    ELSE IF name \notin DOMAIN cf.bindOpts
      THEN Done([cf EXCEPT !.bindOpts = (name :> NewFlagOpt) @@ @])
      ELSE Done(cf)

RECURSIVE addShortcuts(_, _, _)
addShortcuts(cf, name, shorts) ==
  IF shorts = << >> THEN Done(cf)
  ELSE IF Head(shorts) \in DOMAIN cf.shortcuts
    THEN Panic(cf, "shortcut has been used")
    ELSE addShortcuts(
           [cf EXCEPT !.shortcuts = (Head(shorts) :> name) @@ @], name, Tail(shorts))

AddShortcuts(cf, name, shorts) ==
  LET r1 == addShortcuts(cf, name, shorts)
      r2 == ConfigOpt(r1.c, name)
  IN IF r1.panic # NoPanic THEN r1
     ELSE IF r2.panic # NoPanic THEN r2
     ELSE r2

AddValidator(cf, name, fn) ==
  LET r == ConfigOpt(cf, name)
  IN IF r.panic # NoPanic THEN r
     ELSE Done([r.c EXCEPT !.bindOpts[name].Validator = fn])

\* ConfigOpt(name, func(opt *FlagOpt) { opt.Required = true })
ConfigOptRequired(cf, name) ==
  LET r == ConfigOpt(cf, name)
  IN IF r.panic # NoPanic THEN r
     ELSE Done([r.c EXCEPT !.bindOpts[name].Required = TRUE])

\* FlagArg.check: a malformed default value is a configuration error
check(arg) == IF arg.V = Malformed THEN "malformed" ELSE "nil"

\* BindArg(arg *FlagArg).  `registered` says that arg points to the object
\* c.bindArgs[arg.Name] already holds (as in c.BindArg(c.Arg(name))): the
\* assignment to arg.Index is then an assignment to the registered argument.
BindArg(cf, arg, registered) ==
  LET arg1 == [arg EXCEPT !.Index = Cardinality(DOMAIN cf.bindArgs)]
      c1 == IF registered THEN [cf EXCEPT !.bindArgs[arg.Name] = arg1] ELSE cf
  IN IF check(arg1) # "nil" THEN Panic(c1, "bad arg")
     ELSE IF arg1.Name \in DOMAIN c1.bindArgs THEN Panic(c1, "arg have been registered")
     ELSE Done([c1 EXCEPT !.bindArgs = (arg1.Name :> arg1) @@ @])

AddArg(cf, name, required, value) ==
  BindArg(cf, [Name |-> name, Index |-> 0, Required |-> required, V |-> value], FALSE)

-----------------------------------------------------------------------------
(* Parse: the pre-pass. *)

\* An option's usage string is kept split the way strutil.SplitNTrimmed(desc, ";", 3)
\* splits it: <<description>>, <<description, required>> or
\* <<description, required, shortcuts>>, the third part split on "," already.
\* strutil.Bool: the literals that read as true
StrBool(lit) == lit \in {"1", "on", "yes", "true"}

\* the declared options in the order flag.FlagSet.VisitAll visits them:
\* lexicographical order of the names
RECURSIVE sortFlags(_)
sortFlags(names) ==
  IF names = {} THEN << >>
  ELSE LET first == CHOOSE n \in names : \A m \in names \ {n} : StrLess(n, m)
       IN <<first>> \o sortFlags(names \ {first})

\* parseFlagUsage(name, usage): the binder it leaves, the usage it returns for
\* f.Usage, and the panic of addShortcuts
parseFlagUsage(cf, name, usage) ==
  LET c1 == IF name \in DOMAIN cf.bindOpts THEN cf
            ELSE [cf EXCEPT !.bindOpts = (name :> NewFlagOpt) @@ @]
      required == StrBool(usage[2])
      c2 == IF required THEN [c1 EXCEPT !.bindOpts[name].Required = TRUE] ELSE c1
      desc == <<usage[1]>>
      r == addShortcuts(c2, name, usage[3])
  IN IF Len(usage) = 1 THEN [c |-> c1, usage |-> usage, panic |-> NoPanic]
     ELSE IF Len(usage) > 2 /\ Len(usage[3]) > 0
       THEN [c |-> r.c, usage |-> desc, panic |-> r.panic]
       ELSE [c |-> c2, usage |-> desc, panic |-> NoPanic]

\* the body of the VisitAll callback of prepare, for the flags still to visit
RECURSIVE visitAll(_, _)
visitAll(cf, names) ==
  IF names = << >> THEN Done(cf)
  ELSE LET name == Head(names)
           r == parseFlagUsage(cf, name, cf.formal[name].Usage)
       IN IF name \in DOMAIN cf.shortcuts
            THEN Panic(cf, "name has been as shortcut")
          ELSE IF r.panic # NoPanic THEN Panic(r.c, r.panic)
          ELSE visitAll([r.c EXCEPT !.formal[name].Usage = r.usage], Tail(names))

prepare(cf) == visitAll(cf, sortFlags(DOMAIN cf.formal))

-----------------------------------------------------------------------------
(* Parse: shortcut substitution. *)

\* AddPrefix(name): the option-prefix convention, "-x" for a name of one
\* character and "--name" for a longer one
AddPrefix(name) == IF Len(name) > 1 THEN <<"-", "-">> \o name ELSE <<"-">> \o name

\* the bug of not stopping at "--"
RECURSIVE replaceShortsNoStop(_, _)
replaceShortsNoStop(shortcuts, args) ==
  IF args = << >> THEN << >>
  ELSE LET arg == Head(args)
           hit == { short \in DOMAIN shortcuts : arg = AddPrefix(short) }
       IN IF arg = << >> \/ arg[1] # "-" \/ hit = {}
            THEN <<arg>> \o replaceShortsNoStop(shortcuts, Tail(args))
            ELSE <<AddPrefix(shortcuts[CHOOSE short \in hit : TRUE])>>
                   \o replaceShortsNoStop(shortcuts, Tail(args))

\* replaceShorts(args), for the shortcut table `shortcuts`.  At most one key
\* of the table matches a token (AddPrefix is one-to-one), so the order of
\* the range over the table does not show.
RECURSIVE replaceShorts(_, _)
replaceShorts(shortcuts, args) ==
  IF args = << >> THEN << >>
  ELSE LET arg == Head(args)
           hit == { short \in DOMAIN shortcuts : arg = AddPrefix(short) }
       IN IF arg = << >> \/ arg[1] # "-"
            THEN <<arg>> \o replaceShorts(shortcuts, Tail(args))
          ELSE IF arg = sDashDash THEN args
          ELSE IF hit # {}
            THEN <<AddPrefix(shortcuts[CHOOSE short \in hit : TRUE])>>
                   \o replaceShorts(shortcuts, Tail(args))
            ELSE <<arg>> \o replaceShorts(shortcuts, Tail(args))

-----------------------------------------------------------------------------
(* Parse: flag.FlagSet.Parse, for string-valued flags. *)

\* the least i > 1 with name[i] = "=", or 0
EqualsAt(name) ==
  LET at == { i \in 2..Len(name) : name[i] = "=" }
  IN IF at = {} THEN 0 ELSE CHOOSE i \in at : \A j \in at : i <= j

\* FlagSet.Parse(arguments): parseOne until it stops or fails.  The result is
\* the flags with their values, the arguments left (FlagSet.Args()) and the error.
RECURSIVE FlagSetParse(_, _)
FlagSetParse(formal, arguments) ==
  IF arguments = << >> THEN [formal |-> formal, args |-> arguments, err |-> NilErr]
  ELSE
    LET s == Head(arguments)
        numMinuses == IF Len(s) >= 2 /\ s[2] = "-" THEN 2 ELSE 1
        rest == Tail(arguments)
        full == SubSeq(s, numMinuses + 1, Len(s))
        eq == EqualsAt(full)
        name == IF eq = 0 THEN full ELSE SubSeq(full, 1, eq - 1)
        inline == IF eq = 0 THEN << >> ELSE SubSeq(full, eq + 1, Len(full))
    IN IF Len(s) < 2 \/ s[1] # "-"
         THEN [formal |-> formal, args |-> arguments, err |-> NilErr]
       ELSE IF s = sDashDash
         THEN [formal |-> formal, args |-> rest, err |-> NilErr]
       ELSE IF full[1] = "-" \/ full[1] = "="
         THEN [formal |-> formal, args |-> arguments, err |-> Err("badSyntax", s, -1)]
       ELSE IF name \notin DOMAIN formal
         THEN IF name = sHelp \/ name = sH
                THEN [formal |-> formal, args |-> rest, err |-> ErrHelp]
                ELSE [formal |-> formal, args |-> rest, err |-> Err("notDefined", name, -1)]
       ELSE IF eq # 0
         THEN FlagSetParse([formal EXCEPT ![name].Value = inline], rest)
       ELSE IF rest = << >>
         THEN [formal |-> formal, args |-> rest, err |-> Err("needsArgument", name, -1)]
       ELSE FlagSetParse([formal EXCEPT ![name].Value = Head(rest)], Tail(rest))

-----------------------------------------------------------------------------
(* Parse: validation of the options and binding of the arguments. *)

\* opt.Validator(value): the validator "notEmpty" rejects the empty string
Validate(fn, value) == IF fn = "notEmpty" /\ value = sEmpty THEN "empty value" ELSE "nil"

\* the bug of checking the validators only
RECURSIVE checkBindOptsNoRequired(_, _)
checkBindOptsNoRequired(cf, order) ==
  IF order = << >> THEN NilErr
  ELSE LET name == Head(order)
           opt == cf.bindOpts[name]
           fv == cf.formal[name].Value
       IN IF opt.Validator = "nil" THEN checkBindOptsNoRequired(cf, Tail(order))
          ELSE IF Validate(opt.Validator, fv) # "nil" THEN Err("optionInvalid", name, -1)
          ELSE checkBindOptsNoRequired(cf, Tail(order))

\* checkBindOpts(), walking c.bindOpts in the order `order` of its keys
RECURSIVE checkBindOpts(_, _)
checkBindOpts(cf, order) ==
  IF order = << >> THEN NilErr
  ELSE LET name == Head(order)
           opt == cf.bindOpts[name]
           fv == cf.formal[name].Value
       IN IF opt.Required /\ fv = sEmpty THEN Err("optionRequired", name, -1)
          ELSE IF opt.Validator = "nil" THEN checkBindOpts(cf, Tail(order))
          ELSE IF Validate(opt.Validator, fv) # "nil" THEN Err("optionInvalid", name, -1)
          ELSE checkBindOpts(cf, Tail(order))

\* the loop of bindParsedArgs over c.bindArgs, in the order `order` of its keys
RECURSIVE bindArgsLoop(_, _, _)
bindArgsLoop(cf, order, lastIdx) ==
  IF order = << >> THEN [c |-> cf, lastIdx |-> lastIdx, err |-> NilErr]
  ELSE LET name == Head(order)
           arg == cf.bindArgs[name]
           argN == Len(cf.args) - 1
           val == cf.args[arg.Index + 1]
       IN IF arg.Index > argN
            THEN IF arg.Required
                   THEN [c |-> cf, lastIdx |-> lastIdx, err |-> Err("argRequired", name, arg.Index)]
                   ELSE [c |-> cf, lastIdx |-> lastIdx, err |-> NilErr]
          ELSE IF arg.Required /\ val = sEmpty
            THEN [c |-> cf, lastIdx |-> lastIdx + 1, err |-> Err("argRequired", name, arg.Index)]
          ELSE bindArgsLoop([cf EXCEPT !.bindArgs[name].V = val], Tail(order), lastIdx + 1)

bindParsedArgs(cf, order) ==
  LET r == bindArgsLoop(cf, order, 0)
      argN == Len(cf.args) - 1
  IN IF r.err # NilErr THEN [c |-> r.c, err |-> r.err, lastIdx |-> r.lastIdx]
     ELSE IF r.lastIdx < argN
       THEN [c |-> [r.c EXCEPT !.remainArgs = SubSeq(cf.args, r.lastIdx + 1, Len(cf.args))],
             err |-> NilErr, lastIdx |-> r.lastIdx]
       ELSE [c |-> r.c, err |-> NilErr, lastIdx |-> r.lastIdx]

\* the arguments doParse hands to FlagSet.Parse
fmtArgs(cf, args) ==
  IF Cardinality(DOMAIN cf.shortcuts) > 0 /\ Len(args) > 0
    THEN replaceShorts(cf.shortcuts, args) ELSE args

\* c.FlagSet.Parse(args) in doParse: the binder with the flags' values and
\* the arguments left, and the error
parseFlags(cf, args) ==
  LET f == FlagSetParse(cf.formal, fmtArgs(cf, args))
  IN [c |-> [cf EXCEPT !.formal = f.formal, !.args = f.args], err |-> f.err]

\* doParse(args); lastIdx is the number of bound arguments it assigned
doParse(cf, args, optOrder, argOrder) ==
  LET f == parseFlags(cf, args)
      e == checkBindOpts(f.c, optOrder)
  IN IF f.err # NilErr THEN [c |-> f.c, err |-> f.err, lastIdx |-> 0]
     ELSE IF e # NilErr THEN [c |-> f.c, err |-> e, lastIdx |-> 0]
     ELSE bindParsedArgs(f.c, argOrder)

\* c.Func(c): the handler returns nil or an error of its own
FuncResult(fn) == IF fn = "err" THEN Err("funcError", sEmpty, -1) ELSE NilErr

\* os.Args[1:] of the process
OsArgs == << >>
NilArgs == <<"nil">>

\* the bug of calling the handler whatever doParse returns
ParseAlwaysFunc(cf, args, optOrder, argOrder) ==
  LET p == prepare(cf)
      d == doParse(p.c, IF args = NilArgs THEN OsArgs ELSE args, optOrder, argOrder)
  IN IF p.panic # NoPanic
       THEN [c |-> p.c, err |-> NilErr, panic |-> p.panic, funcCalls |-> 0,
             help |-> FALSE, assigned |-> 0]
     ELSE IF cf.Func # "nil"
       THEN [c |-> d.c, err |-> FuncResult(cf.Func), panic |-> NoPanic, funcCalls |-> 1,
             help |-> FALSE, assigned |-> d.lastIdx]
     ELSE [c |-> d.c, err |-> NilErr, panic |-> NoPanic, funcCalls |-> 0,
           help |-> FALSE, assigned |-> d.lastIdx]

\* Parse(args).  A panic of prepare is recovered by the deferred function, and
\* Parse then returns the zero value of its result, nil.  The result says what
\* the call did besides: the error returned, the panic recovered, the number of
\* calls of c.Func, whether the flag engine reported flag.ErrHelp, and the
\* number of bound arguments assigned.
Parse(cf, args, optOrder, argOrder) ==
  LET p == prepare(cf)
      d == doParse(p.c, IF args = NilArgs THEN OsArgs ELSE args, optOrder, argOrder)
  IN IF p.panic # NoPanic
       THEN [c |-> p.c, err |-> NilErr, panic |-> p.panic, funcCalls |-> 0,
             help |-> FALSE, assigned |-> 0]
     ELSE IF d.err # NilErr
       THEN [c |-> d.c, err |-> IF d.err = ErrHelp THEN NilErr ELSE d.err,
             panic |-> NoPanic, funcCalls |-> 0, help |-> d.err = ErrHelp,
             assigned |-> d.lastIdx]
     ELSE IF cf.Func # "nil"
       THEN [c |-> d.c, err |-> FuncResult(cf.Func), panic |-> NoPanic, funcCalls |-> 1,
             help |-> FALSE, assigned |-> d.lastIdx]
     ELSE [c |-> d.c, err |-> NilErr, panic |-> NoPanic, funcCalls |-> 0,
           help |-> FALSE, assigned |-> d.lastIdx]

-----------------------------------------------------------------------------
(* The calls a program makes, and their inputs. *)

OptNames == {sAB, sB}
ArgNames == {sN, sT}

\* the flag declarations of the program: name and usage string
Decls ==
  { <<sAB, <<"d">> >>,
    <<sAB, <<"d", "true">> >>,
    <<sAB, <<"d", "0", <<sX>> >> >>,
    <<sB, <<"d", "", <<sAB>> >> >>,
    <<sB, <<"d", "1", <<sX>> >> >> }

ShortLists == { <<sX>>, <<sAB>>, <<sB, sX>> }
DefaultValues == { NilValue, Malformed }

Tokens ==
  { sEmpty, sV, sDashDash, <<"-", "x">>, <<"-", "-", "a", "b">>, <<"-", "h">> }

ArgLists == UNION { [1..n -> Tokens] : n \in 0..MaxArgLen }

\* the argument lists of the Parse calls that are carried out; what a Parse
\* call would do is checked for every list of ArgLists
ParseInputs ==
  { NilArgs,
    << >>,
    <<sV>>,
    <<sEmpty>>,
    <<sV, sW>>,
    <<<<"-", "x">>, sV>>,
    <<<<"-", "-", "a", "b">>, sV>>,
    <<sDashDash, <<"-", "x">> >>,
    <<<<"-", "h">> >> }

\* the orders in which a range over c.bindOpts, c.bindArgs may visit the keys;
\* Parse ranges over the maps of the binder that prepare() leaves
OptOrders(cf) == Perms(DOMAIN cf.bindOpts)
ArgOrders(cf) == Perms(DOMAIN cf.bindArgs)

\* what the caller of Parse sees: Parse always returns, a recovered panic included
Outcome(r) ==
  [op |-> "Parse", returned |-> TRUE, err |-> r.err, panic |-> r.panic,
   funcCalls |-> r.funcCalls, help |-> r.help, assigned |-> r.assigned]

Setup(op, r) ==
  /\ nCalls < MaxCalls
  /\ c' = r.c
  /\ last' = [op |-> op, returned |-> r.panic = NoPanic, err |-> NilErr, panic |-> r.panic,
               funcCalls |-> 0, help |-> FALSE, assigned |-> 0]
  /\ nCalls' = nCalls + 1

CallStringVar == \E d \in Decls : Setup("StringVar", StringVar(c, d[1], d[2]))

CallAddShortcuts ==
  \E name \in OptNames, shorts \in ShortLists :
    Setup("AddShortcuts", AddShortcuts(c, name, shorts))

CallAddValidator == \E name \in OptNames : Setup("AddValidator", AddValidator(c, name, "notEmpty"))

CallConfigOpt == \E name \in OptNames : Setup("ConfigOpt", ConfigOptRequired(c, name))

\* c.Func = fn
CallSetFunc == \E fn \in {"ok", "err"} : Setup("SetFunc", Done([c EXCEPT !.Func = fn]))

CallAddArg ==
  \E name \in ArgNames, required \in BOOLEAN, value \in DefaultValues :
    Setup("AddArg", AddArg(c, name, required, value))

\* one required argument, for a binder whose options are under study
CallAddRequiredArg == Setup("AddArg", AddArg(c, sN, TRUE, NilValue))

\* c.BindArg(c.Arg(name)): binding the registered object once more
CallBindArg ==
  \E name \in DOMAIN c.bindArgs : Setup("BindArg", BindArg(c, c.bindArgs[name], TRUE))

CallParse ==
  /\ nCalls < MaxCalls
  /\ \E args \in ParseInputs, optOrder \in OptOrders(prepare(c).c),
        argOrder \in ArgOrders(prepare(c).c) :
       LET r == Parse(c, args, optOrder, argOrder)
       IN /\ c' = r.c
          /\ last' = Outcome(r)
  /\ nCalls' = nCalls + 1

Init ==
  /\ c = NewEmpty("nil")
  /\ last = [op |-> "New", returned |-> TRUE, err |-> NilErr, panic |-> NoPanic,
             funcCalls |-> 0, help |-> FALSE, assigned |-> 0]
  /\ nCalls = 0

\* a program that declares options and gives them shortcuts
NextShort ==
  \/ CallStringVar
  \/ CallAddShortcuts
  \/ CallParse

\* a program that declares options, makes them required or validated, binds
\* one required argument and sets the handler
NextReq ==
  \/ CallStringVar
  \/ CallAddValidator
  \/ CallConfigOpt
  \/ CallSetFunc
  \/ CallAddRequiredArg
  \/ CallParse

\* a program that binds positional arguments
NextArg ==
  \/ CallAddArg
  \/ CallBindArg
  \/ CallParse

Next == NextShort \/ NextReq \/ NextArg

SpecShort == Init /\ [][NextShort]_vars
SpecReq == Init /\ [][NextReq]_vars
SpecArg == Init /\ [][NextArg]_vars
Spec == Init /\ [][Next]_vars

-----------------------------------------------------------------------------
(* Properties of the shortcuts. *)

\* the position of the first "--" of args, or Len(args) + 1
FirstDashDash(args) ==
  LET at == { i \in 1..Len(args) : args[i] = sDashDash }
  IN IF at = {} THEN Len(args) + 1 ELSE CHOOSE i \in at : \A j \in at : i <= j

\* C1, for the shortcuts of one character, whose short form is "-s": for
\* every shortcut s registered for a declared option o (by AddShortcuts or by
\* the usage string of o) and every value v, Parse(["-s", v]) and
\* Parse(["--o", v]) leave the same binder and return the same result.
C1_ShortcutEquivalence ==
  \A o \in DOMAIN c.formal, v \in {sV, sW},
     optOrder \in OptOrders(prepare(c).c), argOrder \in ArgOrders(prepare(c).c) :
    LET p == prepare(c)
    IN p.panic = NoPanic =>
         \A s \in DOMAIN p.c.shortcuts :
           (p.c.shortcuts[s] = o /\ Len(s) = 1) =>
             Parse(c, << <<"-">> \o s, v >>, optOrder, argOrder)
               = Parse(c, << <<"-", "-">> \o o, v >>, optOrder, argOrder)

\* C5: a configuration error found while Parse runs is fatal, Parse does not
\* return to its caller; so a Parse that returned nil ran without a panic.
C5_ConfigErrorIsFatal ==
  (last.op = "Parse" /\ last.returned /\ last.err = NilErr) => last.panic = NoPanic

\* C6: when Parse got past its pre-pass, no declared option's name is a key
\* of the shortcut table.
C6_NoNameIsShortcut ==
  (last.op = "Parse" /\ last.panic = NoPanic) =>
    DOMAIN c.formal \cap DOMAIN c.shortcuts = {}

\* C7: for every argument list, shortcut substitution returns a list of the
\* same length; every token at or after the first "--" is the input token, and
\* so is every token that does not start with "-".
C7_StopAtDoubleDash ==
  \A args \in ArgLists :
    LET out == replaceShorts(c.shortcuts, args)
        stop == FirstDashDash(args)
    IN /\ Len(out) = Len(args)
       /\ \A i \in 1..Len(args) :
            (i >= stop \/ args[i] = << >> \/ args[i][1] # "-") => out[i] = args[i]

\* a Parse behind which "-x", a registered shortcut, stands after "--": the
\* flag engine was handed it as it was, and left it as the first argument
C7_Witness ==
  /\ last.op = "Parse"
  /\ last.err = NilErr
  /\ sX \in DOMAIN c.shortcuts
  /\ c.args = << <<"-", "x">> >>

\* the shortcuts of the table `old` have the same owner in `new`
Kept(old, new) == \A s \in DOMAIN old : s \in DOMAIN new /\ new[s] = old[s]

\* C9: a shortcut token that is mapped to an option is never mapped to another
\* one.  An AddShortcuts call that names a token of the table panics, and so
\* does a pre-pass over an option whose usage string names one; both leave
\* every owner as it was, and the call that made the attempt, AddShortcuts or
\* Parse, does not return to its caller.
C9_ShortcutNeverRemapped ==
  /\ \A name \in OptNames, shorts \in ShortLists :
       LET r == AddShortcuts(c, name, shorts)
       IN /\ Kept(c.shortcuts, r.c.shortcuts)
          /\ (\E i \in 1..Len(shorts) : shorts[i] \in DOMAIN c.shortcuts)
               => r.panic = "shortcut has been used"
  /\ LET p == prepare(c)
     IN /\ Kept(c.shortcuts, p.c.shortcuts)
        /\ (\E name \in DOMAIN c.formal :
              LET usage == c.formal[name].Usage
              IN Len(usage) > 2 /\ \E i \in 1..Len(usage[3]) : usage[3][i] \in DOMAIN c.shortcuts)
             => p.panic # NoPanic
  /\ last.panic = "shortcut has been used" => ~last.returned

-----------------------------------------------------------------------------
(* Properties of the bound arguments. *)

\* the bound arguments carry the indices 0 .. n-1, one each
DenseIndices(bindArgs) ==
  /\ { bindArgs[name].Index : name \in DOMAIN bindArgs } = 0..(Cardinality(DOMAIN bindArgs) - 1)
  /\ \A n1, n2 \in DOMAIN bindArgs : bindArgs[n1].Index = bindArgs[n2].Index => n1 = n2

\* the errors of the flag engine
FlagErrKinds == {"badSyntax", "notDefined", "needsArgument"}

\* C2: a Parse step whose flags parse, with n bound arguments of indices
\* 0 .. n-1 and k < n positional tokens, none of them empty, whatever the
\* order of the walk: the arguments 0 .. k-1 get the tokens 0 .. k-1; if
\* argument k is required Parse returns the error that names it and k; if it
\* is optional Parse returns nil, the arguments k .. n-1 keep their values and
\* RemainArgs() is empty.
C2_MissingArgument ==
  [][ LET n == Cardinality(DOMAIN c.bindArgs)
          k == Len(c'.args)
          argK == CHOOSE name \in DOMAIN c.bindArgs : c.bindArgs[name].Index = k
      IN ( /\ last'.op = "Parse"
           /\ last'.panic = NoPanic
           /\ ~last'.help
           /\ last'.err.kind \notin FlagErrKinds
           /\ DenseIndices(c.bindArgs)
           /\ k < n
           /\ \A i \in 1..k : c'.args[i] # sEmpty )
         =>
         /\ \A name \in DOMAIN c.bindArgs :
              c.bindArgs[name].Index < k =>
                c'.bindArgs[name].V = c'.args[c.bindArgs[name].Index + 1]
         /\ IF c.bindArgs[argK].Required
              THEN last'.err = Err("argRequired", argK, k)
              ELSE /\ last'.err = NilErr
                   /\ \A name \in DOMAIN c.bindArgs :
                        c.bindArgs[name].Index >= k
                          => c'.bindArgs[name].V = c.bindArgs[name].V
                   /\ c'.remainArgs = << >>
    ]_vars

\* C3: after a Parse that returned nil (having parsed and bound, not a help
\* request), RemainArgs() is what FlagSet.Args() holds from the m-th token on,
\* m being the number of bound arguments the call assigned.
C3_RemainArgs ==
  (last.op = "Parse" /\ last.err = NilErr /\ last.panic = NoPanic /\ ~last.help) =>
    c.remainArgs = SubSeq(c.args, last.assigned + 1, Len(c.args))

\* C8: the n bound arguments carry exactly the indices 0 .. n-1.
C8_IndicesDense == DenseIndices(c.bindArgs)

-----------------------------------------------------------------------------
(* Properties of the option checks and of the handler. *)

\* the option `name` of the binder cf is required and its value is empty
RequiredAndEmpty(cf, name) ==
  /\ name \in DOMAIN cf.bindOpts
  /\ cf.bindOpts[name].Required
  /\ cf.formal[name].Value = sEmpty

\* the option `name` of the binder cf has a validator that rejects its value
Rejected(cf, name) ==
  /\ name \in DOMAIN cf.bindOpts
  /\ cf.bindOpts[name].Validator # "nil"
  /\ cf.formal[name].Value = sEmpty

\* C4 as stated: after a Parse whose flags parsed, every option that is
\* required and empty is named by the error returned, and c.Func was not called.
C4_RequiredOption ==
  (last.op = "Parse" /\ last.panic = NoPanic /\ ~last.help
     /\ last.err.kind \notin FlagErrKinds) =>
    \A o \in DOMAIN c.bindOpts :
      RequiredAndEmpty(c, o) =>
        last.err = Err("optionRequired", o, -1) /\ last.funcCalls = 0

\* C4 as amended, for the next call of a binder that is not at the bound of
\* the exploration: a Parse whose flags parse and leave a required option empty
\* returns an error of the option checks and does not call c.Func; the error
\* names a required and empty option, or an option its validator rejects,
\* the first one the walk over the bound options meets.
C4_RequiredOptionAmended ==
  nCalls < MaxCalls =>
    LET p == prepare(c)
    IN \A args \in ArgLists :
         LET f == parseFlags(p.c, args)
         IN (p.panic = NoPanic /\ f.err = NilErr
               /\ \E o \in DOMAIN f.c.bindOpts : RequiredAndEmpty(f.c, o)) =>
              \A optOrder \in OptOrders(p.c), argOrder \in ArgOrders(p.c) :
                LET r == Parse(c, args, optOrder, argOrder)
                IN /\ r.funcCalls = 0
                   /\ \/ r.err.kind = "optionRequired" /\ RequiredAndEmpty(f.c, r.err.name)
                      \/ r.err.kind = "optionInvalid" /\ Rejected(f.c, r.err.name)

\* a Parse has returned the error of a required and empty option, and has
\* not called the handler that is set
C4_Witness ==
  /\ last.op = "Parse"
  /\ last.err.kind = "optionRequired"
  /\ RequiredAndEmpty(c, last.err.name)
  /\ c.Func # "nil"
  /\ last.funcCalls = 0

\* C10 as stated, the part that fails: c.Func is not called by a Parse that
\* returns an error.
C10_NoFuncOnError ==
  (last.op = "Parse" /\ last.err # NilErr) => last.funcCalls = 0

\* C10 as amended, for the next call of a binder that is not at the bound of
\* the exploration: a Parse call calls c.Func at most once, and only after the
\* pre-pass, the flag parsing, the check of every bound option and the
\* binding of the arguments have succeeded; when one of them fails Parse
\* returns its error (nil for a help request) without calling c.Func; when
\* c.Func is called Parse returns the result of c.Func, which may be an error.
C10_FuncAfterSuccess ==
  nCalls < MaxCalls =>
    LET p == prepare(c)
    IN \A args \in ArgLists :
         LET f == parseFlags(p.c, args)
         IN \A optOrder \in OptOrders(p.c), argOrder \in ArgOrders(p.c) :
              LET e == checkBindOpts(f.c, optOrder)
                  b == bindParsedArgs(f.c, argOrder)
                  r == Parse(c, args, optOrder, argOrder)
                  failed == \/ p.panic # NoPanic
                            \/ f.err # NilErr
                            \/ e # NilErr
                            \/ b.err # NilErr
              IN /\ r.funcCalls \in {0, 1}
                 /\ r.funcCalls = 1 <=> (~failed /\ c.Func # "nil")
                 /\ r.funcCalls = 1 =>
                      /\ \A o \in DOMAIN f.c.bindOpts :
                           ~RequiredAndEmpty(f.c, o) /\ ~Rejected(f.c, o)
                      /\ r.err = FuncResult(c.Func)
                 /\ (p.panic = NoPanic /\ f.err = ErrHelp)
                      => (r.err = NilErr /\ r.funcCalls = 0)
                 /\ (p.panic = NoPanic /\ failed /\ f.err # ErrHelp) =>
                      /\ r.funcCalls = 0
                      /\ r.err = IF f.err # NilErr THEN f.err
                                 ELSE IF e # NilErr THEN e ELSE b.err

\* a Parse has checked a required option, called the handler and returned
\* the handler's error
C10_Witness ==
  /\ last.op = "Parse"
  /\ last.funcCalls = 1
  /\ last.err = FuncResult("err")
  /\ \E o \in DOMAIN c.bindOpts : c.bindOpts[o].Required

====
